---- MODULE Spec2Model ----
(***************************************************************************)
(* A model of the smart-home pattern demonstration (src/main.py): one      *)
(* Device with its observers, the TurnOn/TurnOff commands and their        *)
(* CommandHistory, the SmartHomeHub, the DeviceCaretaker, the              *)
(* CommandInterpreter, the Fan and the alert handler chain.                *)
(*                                                                         *)
(* Console output is modelled by two variables that hold what the last     *)
(* operation emitted: notified (the Observer.update calls, in call order)  *)
(* and printed (the other print calls).                                    *)
(***************************************************************************)
EXTENDS Integers, Sequences, FiniteSets, TLC

\* ------------------------------------------------------------------ bounds

\* Command objects 1..NumCommands exist; odd ones are TurnOnCommand objects,
\* even ones TurnOffCommand objects.
NumCommands == 2
\* execute_command is not called while history already holds MaxStack entries.
MaxStack == 2
\* Observer objects 1..NumObservers exist.
NumObservers == 2
\* save_state is not called while saved_states already holds MaxSaved entries.
MaxSaved == 2
\* press_button is counted up to MaxPresses presses.
MaxPresses == 100

\* ------------------------------------------------------------ value domains

None == "None"
DeviceName == "Living Room Light"

\* The values callers pass to Device.set_state directly; "" is a falsy string.
StateValues == {"ON", "OFF", ""}

Commands == 1..NumCommands
ObserverIds == 1..NumObservers

\* Names passed to SmartHomeHub.send_command; only the first is ever registered.
HubNames == {"living_room_light", "garage_door"}
RegisteredNames == {"living_room_light"}
\* Command keywords passed to SmartHomeHub.send_command.
HubCommands == {"turn_on", "turn_off", "dim"}

\* Python truthiness of a value held by previous_state.
Truthy(v) == v /= None /\ v /= ""

VARIABLES
    state,           \* Device.state
    observers,       \* Device.observers, a list
    previous_state,  \* Command.previous_state of every command object
    history,         \* CommandHistory.history, most recent last
    redo_stack,      \* CommandHistory.redo_stack, most recent last
    devices,         \* SmartHomeHub.devices: the names registered for the Device
    saved_states,    \* DeviceCaretaker.saved_states: the memento states
    fan_state,       \* Fan.state
    presses,         \* number of Fan.press_button calls so far
    chain_pos,       \* handler whose handle_alert is running, 0 when none is
    alert,           \* the (alert_level, message) being dispatched
    visited,         \* handlers invoked for the current alert, in order
    notified,        \* Observer.update calls made by the last operation
    printed,         \* lines printed by the last operation (or the current alert)
    lastOp,          \* the last operation called and its arguments
    registered,      \* the registered observers, by the time each was registered
    before,          \* for each entry of history: Device.state before its execute
    phase,           \* "execs", "undos" or "mixed": shape of the history calls so far
    trail            \* Device.state along the latest execute_command, undo, redo run

deviceVars == <<state, observers, registered>>
commandVars == <<previous_state>>
historyVars == <<history, redo_stack>>
hubVars == <<devices>>
mementoVars == <<saved_states>>
fanVars == <<fan_state, presses>>
alertVars == <<chain_pos, alert, visited>>
outVars == <<notified, printed>>
histGhost == <<before, phase, trail>>
vars == <<state, observers, previous_state, history, redo_stack, devices,
          saved_states, fan_state, presses, chain_pos, alert, visited,
          notified, printed, lastOp, registered, before, phase, trail>>

\* ------------------------------------------------------------------ helpers

Last(s) == s[Len(s)]
Front(s) == SubSeq(s, 1, Len(s) - 1)
Range(s) == {s[i] : i \in 1..Len(s)}
\* list.remove(x): drops the first occurrence of x.
RemoveFirst(s, x) ==
    LET i == CHOOSE j \in 1..Len(s) : s[j] = x /\ \A k \in 1..(j - 1) : s[k] /= x
    IN  SubSeq(s, 1, i - 1) \o SubSeq(s, i + 1, Len(s))
\* Python's seq[index] for an index in range.
PyIndex(s, index) == IF index < 0 THEN s[Len(s) + index + 1] ELSE s[index + 1]

\* ------------------------------------------------------------------- Device

\* The calls `for o in self.observers: o.update(f"{self.name} -> {self.state}")`.
UpdateCalls(obs, s) ==
    [i \in 1..Len(obs) |-> [observer |-> obs[i], msg |-> <<DeviceName, "->", s>>]]

\* Device.set_state without the old_state comparison.
Device_set_state_always_notifies(s) ==
    /\ state' = s
    /\ notified' = UpdateCalls(observers, s)

Device_set_state(s) ==
    /\ state' = s
    /\ notified' = IF state /= s THEN UpdateCalls(observers, s) ELSE <<>>

\* An operation that never reaches Device.set_state nor assigns Device.state.
DeviceUntouched ==
    /\ state' = state
    /\ notified' = <<>>

\* add_observer without the membership test.
Device_add_observer_unchecked(obs) ==
    observers' = Append(observers, obs)

\* add_observer that puts a new observer first (insert(0, obs)).
Device_add_observer_in_front(obs) ==
    observers' = IF obs \notin Range(observers) THEN <<obs>> \o observers ELSE observers

Device_add_observer(obs) ==
    observers' = IF obs \notin Range(observers) THEN Append(observers, obs) ELSE observers

Device_remove_observer(obs) ==
    observers' = IF obs \in Range(observers) THEN RemoveFirst(observers, obs) ELSE observers

\* ----------------------------------------------------------------- Commands

IsTurnOn(c) == c % 2 = 1
\* The state a command's execute passes to set_state.
Target(c) == IF IsTurnOn(c) THEN "ON" ELSE "OFF"

\* execute that captures previous_state after calling set_state.
Command_execute_captures_late(c) ==
    /\ previous_state' = [previous_state EXCEPT ![c] = Target(c)]
    /\ Device_set_state(Target(c))

Command_execute(c) ==
    /\ previous_state' = [previous_state EXCEPT ![c] = state]
    /\ Device_set_state(Target(c))

\* undo without the `if self.previous_state` guard.
Command_undo_unguarded(c) ==
    /\ previous_state' = previous_state
    /\ Device_set_state(previous_state[c])

Command_undo(c) ==
    /\ previous_state' = previous_state
    /\ IF Truthy(previous_state[c])
       THEN Device_set_state(previous_state[c])
       ELSE DeviceUntouched

\* ----------------------------------------------------------- CommandHistory

\* execute_command without redo_stack.clear().
CommandHistory_execute_command_keeps_redo(c) ==
    /\ Command_execute(c)
    /\ history' = Append(history, c)
    /\ redo_stack' = redo_stack
    /\ printed' = <<>>

CommandHistory_execute_command(c) ==
    /\ Command_execute(c)
    /\ history' = Append(history, c)
    /\ redo_stack' = <<>>
    /\ printed' = <<>>

\* undo that puts the undone command first in redo_stack (insert(0, command)).
CommandHistory_undo_pushes_in_front ==
    IF history /= <<>>
    THEN /\ history' = Front(history)
         /\ Command_undo(Last(history))
         /\ redo_stack' = <<Last(history)>> \o redo_stack
         /\ printed' = <<>>
    ELSE /\ UNCHANGED <<history, redo_stack, previous_state>>
         /\ DeviceUntouched
         /\ printed' = <<>>

CommandHistory_undo ==
    IF history /= <<>>
    THEN /\ history' = Front(history)
         /\ Command_undo(Last(history))
         /\ redo_stack' = Append(redo_stack, Last(history))
         /\ printed' = <<>>
    ELSE /\ UNCHANGED <<history, redo_stack, previous_state>>
         /\ DeviceUntouched
         /\ printed' = <<>>

\* redo that moves the command back without calling its execute.
CommandHistory_redo_without_execute ==
    IF redo_stack /= <<>>
    THEN /\ redo_stack' = Front(redo_stack)
         /\ UNCHANGED previous_state
         /\ DeviceUntouched
         /\ history' = Append(history, Last(redo_stack))
         /\ printed' = <<>>
    ELSE /\ UNCHANGED <<history, redo_stack, previous_state>>
         /\ DeviceUntouched
         /\ printed' = <<>>

\* redo that, with nothing to redo, repeats the last executed command.
CommandHistory_redo_repeats_last ==
    IF redo_stack /= <<>>
    THEN /\ redo_stack' = Front(redo_stack)
         /\ Command_execute(Last(redo_stack))
         /\ history' = Append(history, Last(redo_stack))
         /\ printed' = <<>>
    ELSE IF history /= <<>>
         THEN /\ Command_execute(Last(history))
              /\ history' = Append(history, Last(history))
              /\ redo_stack' = redo_stack
              /\ printed' = <<>>
         ELSE /\ UNCHANGED <<history, redo_stack, previous_state>>
              /\ DeviceUntouched
              /\ printed' = <<>>

CommandHistory_redo ==
    IF redo_stack /= <<>>
    THEN /\ redo_stack' = Front(redo_stack)
         /\ Command_execute(Last(redo_stack))
         /\ history' = Append(history, Last(redo_stack))
         /\ printed' = <<>>
    ELSE /\ UNCHANGED <<history, redo_stack, previous_state>>
         /\ DeviceUntouched
         /\ printed' = <<>>

\* ------------------------------------------------------------- SmartHomeHub

SmartHomeHub_register_device(name) ==
    /\ devices' = devices \cup {name}
    /\ printed' = << <<"Registered", name>> >>

\* send_command that treats every command other than "turn_on" as "turn_off".
SmartHomeHub_send_command_defaults_off(device_name, command) ==
    IF device_name \in devices
    THEN IF command = "turn_on"
         THEN Device_set_state("ON") /\ printed' = <<>>
         ELSE Device_set_state("OFF") /\ printed' = <<>>
    ELSE DeviceUntouched /\ printed' = << <<"Device", device_name, "not found">> >>

SmartHomeHub_send_command(device_name, command) ==
    IF device_name \in devices
    THEN IF command = "turn_on"
         THEN Device_set_state("ON") /\ printed' = <<>>
         ELSE IF command = "turn_off"
              THEN Device_set_state("OFF") /\ printed' = <<>>
              ELSE DeviceUntouched /\ printed' = << <<"Unknown command:", command>> >>
    ELSE DeviceUntouched /\ printed' = << <<"Device", device_name, "not found">> >>

\* ---------------------------------------------------------- DeviceCaretaker

DeviceCaretaker_save_state ==
    /\ saved_states' = Append(saved_states, state)
    /\ printed' = << <<"Config saved:", state>> >>

\* restore_state that always takes the first memento (saved_states[0]).
DeviceCaretaker_restore_state_oldest(index) ==
    IF saved_states /= <<>>
    THEN /\ state' = saved_states[1]
         /\ notified' = <<>>
         /\ printed' = << <<"Config restored ->", saved_states[1]>> >>
    ELSE /\ DeviceUntouched
         /\ printed' = << <<"No saved states to restore">> >>

\* restore_state assigns Device.state directly; it does not call set_state.
DeviceCaretaker_restore_state(index) ==
    IF saved_states /= <<>>
    THEN /\ state' = PyIndex(saved_states, index)
         /\ notified' = <<>>
         /\ printed' = << <<"Config restored ->", PyIndex(saved_states, index)>> >>
    ELSE /\ DeviceUntouched
         /\ printed' = << <<"No saved states to restore">> >>

\* ------------------------------------------------------- CommandInterpreter

\* Command texts are sequences of characters.
Text1 == <<"t", "u", "r", "n", " ", "o", "n", " ", "l", "i", "g", "h", "t">>
Text2 == <<" ", " ", "T", "u", "r", "n", " ", "O", "F", "F", " ", "l", "i", "g", "h", "t", " ">>
Text3 == <<"t", "o", "g", "g", "l", "e", " ", "l", "i", "g", "h", "t">>
Text4 == <<"S", "W", "I", "T", "C", "H", " ", "O", "N">>
Text5 == <<"s", "w", "i", "t", "c", "h", " ", "o", "f", "f", " ", "n", "o", "w">>
Text6 == <<"d", "i", "m", " ", "l", "i", "g", "h", "t">>
Texts == {Text1, Text2, Text3, Text4, Text5, Text6}

\* str.lower() on one character (the capitals that occur in Texts).
LowerChar(ch) ==
    CASE ch = "T" -> "t"
      [] ch = "U" -> "u"
      [] ch = "R" -> "r"
      [] ch = "N" -> "n"
      [] ch = "O" -> "o"
      [] ch = "F" -> "f"
      [] ch = "S" -> "s"
      [] ch = "W" -> "w"
      [] ch = "I" -> "i"
      [] ch = "C" -> "c"
      [] ch = "H" -> "h"
      [] OTHER -> ch

Lower(s) == [i \in 1..Len(s) |-> LowerChar(s[i])]

\* str.strip(): drops leading and trailing blanks.
Strip(s) ==
    LET idx == {i \in 1..Len(s) : s[i] /= " "}
    IN  IF idx = {} THEN <<>>
        ELSE SubSeq(s, CHOOSE i \in idx : \A j \in idx : i <= j,
                       CHOOSE i \in idx : \A j \in idx : i >= j)

\* Python's `sub in s` on strings.
Contains(s, sub) ==
    \E i \in 0..(Len(s) - Len(sub)) : SubSeq(s, i + 1, i + Len(sub)) = sub

KwTurnOn == <<"t", "u", "r", "n", " ", "o", "n">>
KwSwitchOn == <<"s", "w", "i", "t", "c", "h", " ", "o", "n">>
KwTurnOff == <<"t", "u", "r", "n", " ", "o", "f", "f">>
KwSwitchOff == <<"s", "w", "i", "t", "c", "h", " ", "o", "f", "f">>
KwToggle == <<"t", "o", "g", "g", "l", "e">>

\* interpret whose toggle branch produces lower-case state names.
InterpretedState_toggle_lowercase(command_text) ==
    LET text == Strip(Lower(command_text))
    IN  IF Contains(text, KwTurnOn) \/ Contains(text, KwSwitchOn) THEN "ON"
        ELSE IF Contains(text, KwTurnOff) \/ Contains(text, KwSwitchOff) THEN "OFF"
        ELSE IF Contains(text, KwToggle)
             THEN (IF state = "ON" THEN "off" ELSE "on")
        ELSE None

\* The state interpret passes to set_state, None when the text is not recognized.
InterpretedState(command_text) ==
    LET text == Strip(Lower(command_text))
    IN  IF Contains(text, KwTurnOn) \/ Contains(text, KwSwitchOn) THEN "ON"
        ELSE IF Contains(text, KwTurnOff) \/ Contains(text, KwSwitchOff) THEN "OFF"
        ELSE IF Contains(text, KwToggle)
             THEN (IF state = "ON" THEN "OFF" ELSE "ON")
        ELSE None

CommandInterpreter_interpret(command_text) ==
    /\ IF InterpretedState(command_text) /= None
       THEN Device_set_state(InterpretedState(command_text))
       ELSE DeviceUntouched
    /\ printed' = <<>>

\* ---------------------------------------------------------------------- Fan

\* HighState.press that goes to LowState instead of OffState.
FanState_press_skips_off(s) ==
    CASE s = "OFF" -> "LOW"
      [] s = "LOW" -> "MEDIUM"
      [] s = "MEDIUM" -> "HIGH"
      [] s = "HIGH" -> "LOW"

\* FanState.press: the state installed (and the label returned) by a press.
FanState_press(s) ==
    CASE s = "OFF" -> "LOW"
      [] s = "LOW" -> "MEDIUM"
      [] s = "MEDIUM" -> "HIGH"
      [] s = "HIGH" -> "OFF"

Fan_press_button ==
    /\ fan_state' = FanState_press(fan_state)
    /\ printed' = << <<"Fan ->", FanState_press(fan_state)>> >>

\* -------------------------------------------------------------- Alert chain

\* police_handler = PoliceHandler(); alarm_handler = AlarmHandler(police_handler);
\* motion_handler = MotionHandler(alarm_handler). Handlers are numbered in
\* chain order; 0 stands for None.
Handlers == {1, 2, 3}
HandlerClass(h) ==
    CASE h = 1 -> "MotionHandler"
      [] h = 2 -> "AlarmHandler"
      [] h = 3 -> "PoliceHandler"
next_handler(h) ==
    CASE h = 1 -> 2
      [] h = 2 -> 3
      [] h = 3 -> 0

\* The alert_level a handler class compares against.
Category(h) ==
    CASE HandlerClass(h) = "MotionHandler" -> "motion"
      [] HandlerClass(h) = "AlarmHandler" -> "alarm"
      [] HandlerClass(h) = "PoliceHandler" -> "police"

\* The line a handler class prints on a match.
Banner(h) ==
    CASE HandlerClass(h) = "MotionHandler" -> "Motion detected!"
      [] HandlerClass(h) = "AlarmHandler" -> "Alarm triggered!"
      [] HandlerClass(h) = "PoliceHandler" -> "Police notified!"

AlertLevels == {"motion", "alarm", "police", "unknown", ""}
AlertMessages == {"Movement in living room", "Intrusion detected", "Emergency situation"}

\* handle_alert that forwards to its successor even after a match.
AlertHandler_handle_alert_falls_through(h) ==
    /\ printed' = IF alert.alert_level = Category(h)
                  THEN Append(printed, [handler |-> h, line |-> <<Banner(h), alert.message>>])
                  ELSE printed
    /\ chain_pos' = next_handler(h)
    /\ visited' = IF next_handler(h) /= 0 THEN Append(visited, next_handler(h)) ELSE visited

\* handle_alert that reports an alert no handler took instead of dropping it.
AlertHandler_handle_alert_reports_unhandled(h) ==
    IF alert.alert_level = Category(h)
    THEN /\ printed' = Append(printed, [handler |-> h, line |-> <<Banner(h), alert.message>>])
         /\ chain_pos' = 0
         /\ visited' = visited
    ELSE IF next_handler(h) /= 0
         THEN /\ chain_pos' = next_handler(h)
              /\ visited' = Append(visited, next_handler(h))
              /\ printed' = printed
         ELSE /\ chain_pos' = 0
              /\ visited' = visited
              /\ printed' = Append(printed, [handler |-> h, line |-> <<"Unhandled alert", alert.message>>])

\* The body of handle_alert of handler h, running for the current alert.
AlertHandler_handle_alert(h) ==
    IF alert.alert_level = Category(h)
    THEN /\ printed' = Append(printed, [handler |-> h, line |-> <<Banner(h), alert.message>>])
         /\ chain_pos' = 0
         /\ visited' = visited
    ELSE IF next_handler(h) /= 0
         THEN /\ chain_pos' = next_handler(h)
              /\ visited' = Append(visited, next_handler(h))
              /\ printed' = printed
         ELSE /\ chain_pos' = 0
              /\ visited' = visited
              /\ printed' = printed

\* --------------------------------------------------------------- the state

\* The state after construction: Device(name), the command objects, a
\* CommandHistory, a SmartHomeHub, a DeviceCaretaker, a Fan and the chain.
Init ==
    /\ state = "OFF"
    /\ observers = <<>>
    /\ previous_state = [c \in Commands |-> None]
    /\ history = <<>>
    /\ redo_stack = <<>>
    /\ devices = {}
    /\ saved_states = <<>>
    /\ fan_state = "OFF"
    /\ presses = 0
    /\ chain_pos = 0
    /\ alert = [alert_level |-> None, message |-> None]
    /\ visited = <<>>
    /\ notified = <<>>
    /\ printed = <<>>
    /\ lastOp = [op |-> "init"]
    /\ registered = <<>>
    /\ before = <<>>
    /\ phase = "execs"
    /\ trail = <<>>

\* Bookkeeping of the call just made: its name and arguments (for
\* execute_command also the number of undone commands it dropped, for undo and
\* redo whether the stack held a command to pop, for undo the two stacks as
\* they were when it was called).
Called(op) == lastOp' = op

\* A call outside CommandHistory that may touch the Device ends the current
\* run of history calls.
EndsHistoryRun ==
    /\ phase' = "mixed"
    /\ trail' = <<>>
    /\ before' = before

\* --------------------------------------------------------------- operations

SetState ==
    \E s \in StateValues :
        /\ Device_set_state(s)
        /\ printed' = <<>>
        /\ Called([op |-> "set_state", s |-> s])
        /\ EndsHistoryRun
        /\ UNCHANGED <<observers, registered, commandVars, historyVars, hubVars, mementoVars,
                       fanVars, alertVars>>

AddObserver ==
    \E obs \in ObserverIds :
        /\ Device_add_observer(obs)
        /\ registered' = IF obs \in Range(registered) THEN registered
                         ELSE registered \o <<obs>>
        /\ DeviceUntouched
        /\ printed' = <<>>
        /\ Called([op |-> "add_observer", obs |-> obs])
        /\ UNCHANGED <<commandVars, historyVars, hubVars, mementoVars, fanVars,
                       alertVars, histGhost>>

RemoveObserver ==
    \E obs \in ObserverIds :
        /\ Device_remove_observer(obs)
        /\ registered' = SelectSeq(registered, LAMBDA o : o /= obs)
        /\ DeviceUntouched
        /\ printed' = <<>>
        /\ Called([op |-> "remove_observer", obs |-> obs])
        /\ UNCHANGED <<commandVars, historyVars, hubVars, mementoVars, fanVars,
                       alertVars, histGhost>>

\* command.execute() called directly, not through a CommandHistory.
CommandExecute ==
    \E c \in Commands :
        /\ Command_execute(c)
        /\ printed' = <<>>
        /\ Called([op |-> "command_execute", command |-> c])
        /\ EndsHistoryRun
        /\ UNCHANGED <<observers, registered, historyVars, hubVars, mementoVars, fanVars, alertVars>>

\* command.undo() called directly, not through a CommandHistory.
CommandUndo ==
    \E c \in Commands :
        /\ Command_undo(c)
        /\ printed' = <<>>
        /\ Called([op |-> "command_undo", command |-> c])
        /\ EndsHistoryRun
        /\ UNCHANGED <<observers, registered, historyVars, hubVars, mementoVars, fanVars, alertVars>>

ExecuteCommand ==
    \E c \in Commands :
        /\ Len(history) < MaxStack
        /\ CommandHistory_execute_command(c)
        /\ Called([op |-> "execute_command", command |-> c, dropped |-> Len(redo_stack)])
        /\ before' = Append(before, state)
        /\ phase' = IF phase = "execs" THEN "execs" ELSE "mixed"
        /\ trail' = <<state, state'>>
        /\ UNCHANGED <<observers, registered, hubVars, mementoVars, fanVars, alertVars>>

\* execute_command called with a command object that was not passed before:
\* in a run of CommandHistory calls those are the objects never executed.
ExecuteFreshCommand ==
    /\ ExecuteCommand
    /\ previous_state[lastOp'.command] = None

Undo ==
    /\ CommandHistory_undo
    /\ Called([op |-> "undo", popped |-> history /= <<>>,
               stacks |-> <<history, redo_stack>>])
    /\ before' = IF history /= <<>> THEN Front(before) ELSE before
    /\ phase' = IF phase \in {"execs", "undos"} THEN "undos" ELSE "mixed"
    /\ trail' = IF Len(trail) = 2 THEN Append(trail, state') ELSE <<>>
    /\ UNCHANGED <<observers, registered, hubVars, mementoVars, fanVars, alertVars>>

Redo ==
    /\ CommandHistory_redo
    /\ Called([op |-> "redo", popped |-> redo_stack /= <<>>])
    /\ before' = IF redo_stack /= <<>> THEN Append(before, state) ELSE before
    /\ phase' = "mixed"
    /\ trail' = IF Len(trail) = 3 THEN Append(trail, state') ELSE <<>>
    /\ UNCHANGED <<observers, registered, hubVars, mementoVars, fanVars, alertVars>>

RegisterDevice ==
    \E name \in RegisteredNames :
        /\ SmartHomeHub_register_device(name)
        /\ DeviceUntouched
        /\ Called([op |-> "register_device", device_name |-> name])
        /\ UNCHANGED <<observers, registered, commandVars, historyVars, mementoVars, fanVars,
                       alertVars, histGhost>>

SendCommand ==
    \E name \in HubNames, command \in HubCommands :
        /\ SmartHomeHub_send_command(name, command)
        /\ Called([op |-> "send_command", device_name |-> name, command |-> command])
        /\ EndsHistoryRun
        /\ UNCHANGED <<observers, registered, commandVars, historyVars, hubVars, mementoVars,
                       fanVars, alertVars>>

SaveState ==
    /\ Len(saved_states) < MaxSaved
    /\ DeviceCaretaker_save_state
    /\ DeviceUntouched
    /\ Called([op |-> "save_state"])
    /\ UNCHANGED <<observers, registered, commandVars, historyVars, hubVars, fanVars, alertVars,
                   histGhost>>

\* restore_state() (index -1, the default) or restore_state(0).
RestoreState ==
    \E index \in {-1, 0} :
        /\ DeviceCaretaker_restore_state(index)
        /\ Called([op |-> "restore_state", index |-> index])
        /\ EndsHistoryRun
        /\ UNCHANGED <<observers, registered, commandVars, historyVars, hubVars, mementoVars,
                       fanVars, alertVars>>

Interpret ==
    \E text \in Texts :
        /\ CommandInterpreter_interpret(text)
        /\ Called([op |-> "interpret", command_text |-> text])
        /\ EndsHistoryRun
        /\ UNCHANGED <<observers, registered, commandVars, historyVars, hubVars, mementoVars,
                       fanVars, alertVars>>

PressButton ==
    /\ presses < MaxPresses
    /\ Fan_press_button
    /\ presses' = presses + 1
    /\ notified' = <<>>
    /\ Called([op |-> "press_button"])
    /\ UNCHANGED <<deviceVars, commandVars, historyVars, hubVars, mementoVars,
                   alertVars, histGhost>>

\* h.handle_alert(alert_level, message) called from outside the chain; the demo
\* enters at motion_handler (handler 1).
Dispatch ==
    \E h \in Handlers, level \in AlertLevels, message \in AlertMessages :
        /\ chain_pos = 0
        /\ alert' = [alert_level |-> level, message |-> message]
        /\ chain_pos' = h
        /\ visited' = <<h>>
        /\ printed' = <<>>
        /\ notified' = <<>>
        /\ Called([op |-> "handle_alert", entry |-> h])
        /\ UNCHANGED <<deviceVars, commandVars, historyVars, hubVars, mementoVars,
                       fanVars, histGhost>>

\* The handler at chain_pos runs its handle_alert body.
HandleAlert ==
    /\ chain_pos /= 0
    /\ AlertHandler_handle_alert(chain_pos)
    /\ UNCHANGED <<alert, notified, lastOp, deviceVars, commandVars,
                   historyVars, hubVars, mementoVars, fanVars, histGhost>>

\* -------------------------------------------------------------- specifications

\* The Device driven only through the pattern objects: commands, CommandHistory,
\* SmartHomeHub, DeviceCaretaker and CommandInterpreter (no observer is
\* registered and set_state is not called from outside).
Next ==
    \/ CommandExecute
    \/ CommandUndo
    \/ ExecuteCommand
    \/ Undo
    \/ Redo
    \/ RegisterDevice
    \/ SendCommand
    \/ SaveState
    \/ RestoreState
    \/ Interpret

Spec == Init /\ [][Next]_vars

\* The Device driven directly: set_state, the observer list and bare commands.
NextDevice ==
    \/ SetState
    \/ AddObserver
    \/ RemoveObserver
    \/ CommandExecute
    \/ CommandUndo

SpecDevice == Init /\ [][NextDevice]_vars

\* The Device driven only through one CommandHistory.
NextHistory ==
    \/ AddObserver
    \/ ExecuteCommand
    \/ Undo
    \/ Redo

SpecHistory == Init /\ [][NextHistory]_vars

\* The Device driven only through one CommandHistory that is passed every
\* command object at most once.
NextHistoryOnce ==
    \/ AddObserver
    \/ ExecuteFreshCommand
    \/ Undo
    \/ Redo

SpecHistoryOnce == Init /\ [][NextHistoryOnce]_vars

\* The Device driven directly and through one DeviceCaretaker.
NextMemento ==
    \/ SetState
    \/ AddObserver
    \/ SaveState
    \/ RestoreState

SpecMemento == Init /\ [][NextMemento]_vars

\* The Device driven directly and through one SmartHomeHub.
NextHub ==
    \/ SetState
    \/ AddObserver
    \/ RegisterDevice
    \/ SendCommand

SpecHub == Init /\ [][NextHub]_vars

\* The alert chain.
NextAlert ==
    \/ Dispatch
    \/ HandleAlert

SpecAlert == Init /\ [][NextAlert]_vars

\* The Fan.
NextFan == PressButton

SpecFan == Init /\ [][NextFan]_vars

\* ------------------------------------------------------------------- claims

\* True when every element of sequence s occurs in it once.
NoDuplicates(s) == \A i, j \in 1..Len(s) : s[i] = s[j] => i = j

\* Number of update calls observer o received in `calls`.
UpdatesTo(calls, o) == Cardinality({i \in 1..Len(calls) : calls[i].observer = o})

\* C1: in a run of execute_command calls followed by undo() calls, after each
\* undo() that pops a command the Device's state equals the state it had just
\* before the execute that pushed the popped entry.
C1_UndoRestoresStateBeforeExecute ==
    [][(lastOp'.op = "undo" /\ history /= <<>> /\ phase' = "undos")
        => state' = Last(before)]_vars

\* The command a trail of execute_command, undo, redo is about.
TrailCommand == IF Len(trail) = 3 THEN Last(redo_stack) ELSE Last(history)

\* C2: after execute_command(c), undo(), redo() the Device's state is the state
\* it had right after the execute of c; and from OFF, execute_command of a
\* TurnOnCommand gives ON, undo() gives OFF and redo() gives ON.
C2_RedoRestoresStateAfterExecute ==
    /\ Len(trail) = 4 => trail[4] = trail[2]
    /\ (Len(trail) >= 2 /\ trail[1] = "OFF" /\ IsTurnOn(TrailCommand))
        => /\ trail[2] = "ON"
           /\ Len(trail) >= 3 => trail[3] = "OFF"
           /\ Len(trail) = 4 => trail[4] = "ON"

C2_Witness ==
    /\ lastOp.op = "redo"
    /\ Len(trail) = 4
    /\ trail[1] = "OFF"
    /\ IsTurnOn(Last(history))
    /\ state = "ON"

\* C3: execute_command leaves redo_stack empty, and a redo() called right after
\* an execute_command changes neither the Device's state nor either stack.
C3_ExecuteClearsRedo ==
    [][/\ lastOp'.op = "execute_command" => redo_stack' = <<>>
       /\ (lastOp.op = "execute_command" /\ lastOp'.op = "redo")
           => UNCHANGED <<state, history, redo_stack>>]_vars

C3_Witness ==
    /\ lastOp.op = "execute_command"
    /\ lastOp.dropped >= 1
    /\ redo_stack = <<>>

\* C4: no command object is in both history and redo_stack, and no command
\* object occurs more than once across the two stacks.
C4_StacksDisjointNoDuplicates ==
    /\ Range(history) \cap Range(redo_stack) = {}
    /\ NoDuplicates(history \o redo_stack)

\* C5: set_state(s) leaves the Device's state equal to s; it calls update once
\* on every registered observer when s differs from the current state, and on
\* no observer when s equals it.
C5_SetStateNotifiesOncePerChange ==
    [][lastOp'.op = "set_state"
        => /\ state' = lastOp'.s
           /\ state /= lastOp'.s
               => /\ Len(notified') = Len(observers)
                  /\ \A o \in Range(observers) : UpdatesTo(notified', o) = 1
           /\ state = lastOp'.s => notified' = <<>>]_vars

C5_Witness ==
    /\ lastOp.op = "set_state"
    /\ state = lastOp.s
    /\ Len(observers) = 2
    /\ Len(notified) = 2
    /\ notified[1].observer /= notified[2].observer

\* C6: a step notifies every registered observer when it changes the Device's
\* state, and notifies no observer when it leaves the state unchanged.
C6_NotifiedIffStateChanges ==
    [][/\ state' /= state => \A o \in Range(observers) : UpdatesTo(notified', o) >= 1
       /\ state' = state => notified' = <<>>]_vars

\* The categories some handler of the chain compares against.
Categories == {Category(h) : h \in Handlers}

\* C7: for a "motion", "alarm" or "police" alert entered at the motion handler,
\* only the handler of that category prints, it prints one message, the
\* handlers before it are visited in chain order without printing and no
\* handler after it is invoked.
C7_MatchingHandlerAlone ==
    (lastOp.op = "handle_alert" /\ lastOp.entry = 1
        /\ alert.alert_level \in {"motion", "alarm", "police"})
    => /\ Len(printed) <= 1
       /\ \A i \in 1..Len(printed) :
            /\ Category(printed[i].handler) = alert.alert_level
            /\ printed[i].line = <<Banner(printed[i].handler), alert.message>>
       /\ visited = [i \in 1..Len(visited) |-> i]
       /\ chain_pos /= 0 => printed = <<>> /\ Last(visited) = chain_pos
       /\ chain_pos = 0
           => /\ Len(printed) = 1
              /\ Last(visited) = printed[1].handler

C7_Witness ==
    /\ lastOp.op = "handle_alert"
    /\ lastOp.entry = 1
    /\ alert.alert_level = "police"
    /\ chain_pos = 0
    /\ visited = <<1, 2, 3>>
    /\ Len(printed) = 1
    /\ printed[1].handler = 3

\* C8: an alert whose category no handler has visits the handlers once each in
\* chain order from the entry, prints nothing, and ends at the last handler,
\* which has no successor.
C8_UnmatchedAlertDropped ==
    (lastOp.op = "handle_alert" /\ alert.alert_level \notin Categories)
    => /\ printed = <<>>
       /\ visited = [i \in 1..Len(visited) |-> lastOp.entry + i - 1]
       /\ chain_pos /= 0 => Last(visited) = chain_pos
       /\ chain_pos = 0 => Last(visited) = 3 /\ next_handler(Last(visited)) = 0

C8_Witness ==
    /\ lastOp.op = "handle_alert"
    /\ lastOp.entry = 1
    /\ alert.alert_level = "unknown"
    /\ chain_pos = 0
    /\ visited = <<1, 2, 3>>
    /\ printed = <<>>

\* An undo() finding history empty, or a redo() finding redo_stack empty.
EmptyStackCall ==
    \/ lastOp'.op = "undo" /\ history = <<>>
    \/ lastOp'.op = "redo" /\ redo_stack = <<>>

\* C9: undo() on an empty history and redo() on an empty redo_stack change
\* neither the Device's state nor either stack and notify no observer.
C9_EmptyStackNoOp ==
    [][EmptyStackCall
        => /\ UNCHANGED <<state, history, redo_stack>>
           /\ notified' = <<>>]_vars

C9_Witness ==
    /\ lastOp.op = "redo"
    /\ ~lastOp.popped
    /\ state = "ON"
    /\ history /= <<>>
    /\ observers /= <<>>

\* C10: undo() on an empty history and redo() on an empty redo_stack print an
\* informational message.
C10_EmptyStackReports ==
    [][EmptyStackCall => printed' /= <<>>]_vars

\* C11: undo() called on a command that was never executed (previous_state is
\* still None) leaves the Device's state unchanged and notifies no observer.
C11_UndoOfUnexecutedIsNoOp ==
    [][(lastOp'.op = "command_undo" /\ previous_state[lastOp'.command] = None)
        => /\ state' = state
           /\ notified' = <<>>]_vars

C11_Witness ==
    /\ lastOp.op = "command_undo"
    /\ previous_state[lastOp.command] = None
    /\ state = "ON"
    /\ observers /= <<>>

\* C12: add_observer of a registered observer and remove_observer of an
\* unregistered one leave the observer list unchanged; the list never holds an
\* observer twice and no operation notifies an observer more than once.
C12_ObserverListIdempotent ==
    [][/\ (lastOp'.op = "add_observer" /\ lastOp'.obs \in Range(observers))
           => observers' = observers
       /\ (lastOp'.op = "remove_observer" /\ lastOp'.obs \notin Range(observers))
           => observers' = observers
       /\ NoDuplicates(observers')
       /\ \A o \in ObserverIds : UpdatesTo(notified', o) <= 1]_vars

C12_Witness ==
    /\ lastOp.op = "add_observer"
    /\ Len(observers) = 2
    /\ observers[1] = lastOp.obs

\* C13: when set_state changes the state, the observers are notified in the
\* order of their (most recent) registration, each with a message made of the
\* device name and the new state.
C13_NotifiedInRegistrationOrder ==
    [][(lastOp'.op = "set_state" /\ state' /= state)
        => /\ Len(notified') = Len(registered)
           /\ \A i \in 1..Len(notified') :
                /\ notified'[i].observer = registered[i]
                /\ notified'[i].msg = <<DeviceName, "->", state'>>]_vars

C13_Witness ==
    /\ lastOp.op = "set_state"
    /\ Len(notified) = 2
    /\ notified[1].observer = 2
    /\ notified[2].observer = 1
    /\ notified[1].msg = <<DeviceName, "->", "ON">>

\* C14: send_command for a name that is not registered, or with a command other
\* than "turn_on" and "turn_off" for a registered name, leaves the Device's
\* state unchanged, notifies no observer and prints a message.
C14_BadSendCommandIsReportedNoOp ==
    [][(/\ lastOp'.op = "send_command"
        /\ \/ lastOp'.device_name \notin devices
           \/ lastOp'.command \notin {"turn_on", "turn_off"})
        => /\ state' = state
           /\ notified' = <<>>
           /\ Len(printed') = 1]_vars

C14_Witness ==
    /\ lastOp.op = "send_command"
    /\ lastOp.device_name \in devices
    /\ lastOp.command = "dim"
    /\ state = "ON"
    /\ observers /= <<>>
    /\ printed = << <<"Unknown command:", "dim">> >>

\* C15: restore_state() with no saved state leaves the Device's state unchanged
\* and prints a message; with saved states and the default index it sets the
\* Device's state to the value the most recent save_state() captured.
C15_RestoreLatestOrReport ==
    [][/\ lastOp'.op = "save_state" => saved_states' = Append(saved_states, state)
       /\ lastOp'.op /= "save_state" => saved_states' = saved_states
       /\ (lastOp'.op = "restore_state" /\ saved_states = <<>>)
           => /\ state' = state
              /\ printed' = << <<"No saved states to restore">> >>
       /\ (lastOp'.op = "restore_state" /\ lastOp'.index = -1 /\ saved_states /= <<>>)
           => state' = Last(saved_states)]_vars

C15_Witness ==
    /\ lastOp.op = "restore_state"
    /\ lastOp.index = -1
    /\ Len(saved_states) = 2
    /\ saved_states[1] = "ON"
    /\ saved_states[2] = "OFF"
    /\ state = "OFF"
    /\ printed = << <<"Config restored ->", "OFF">> >>

\* C16: undo() with a non-empty history moves its last element to the end of
\* redo_stack; a redo() called right after it moves the element back, so both
\* stacks are again as they were before the undo(); neither call changes the
\* combined length of the two stacks.
C16_UndoRedoMoveOneCommand ==
    [][/\ (lastOp'.op = "undo" /\ history /= <<>>)
           => /\ history' = Front(history)
              /\ redo_stack' = Append(redo_stack, Last(history))
       /\ (lastOp.op = "undo" /\ lastOp.popped /\ lastOp'.op = "redo")
           => /\ history' = Append(history, Last(redo_stack))
              /\ redo_stack' = Front(redo_stack)
              /\ <<history', redo_stack'>> = lastOp.stacks
       /\ lastOp'.op \in {"undo", "redo"}
           => Len(history') + Len(redo_stack') = Len(history) + Len(redo_stack)]_vars

C16_Witness ==
    /\ lastOp.op = "redo"
    /\ lastOp.popped
    /\ Len(trail) = 4
    /\ Len(history) = 2
    /\ redo_stack = <<>>

\* The cycle of fan states the claim names.
FanCycle == <<"OFF", "LOW", "MEDIUM", "HIGH">>

\* C17: after k presses of a new Fan its state is the one at position k mod 4 of
\* (OFF, LOW, MEDIUM, HIGH), and the k-th press printed that state.
C17_FanCycles ==
    /\ fan_state = FanCycle[(presses % 4) + 1]
    /\ presses > 0 => printed = << <<"Fan ->", FanCycle[(presses % 4) + 1]>> >>
    /\ presses = 0 => printed = <<>>

C17_Witness ==
    /\ presses = 5
    /\ fan_state = "LOW"
    /\ printed = << <<"Fan ->", "LOW">> >>

\* C18: when the Device is driven only through commands, CommandHistory,
\* SmartHomeHub, CommandInterpreter and DeviceCaretaker, its state is "ON" or
\* "OFF"; so the previous_state of every executed command is truthy and the
\* guard in undo never skips a command that was executed.
C18_StateIsOnOrOff ==
    /\ state \in {"ON", "OFF"}
    /\ \A memento \in Range(saved_states) : memento \in {"ON", "OFF"}
    /\ \A c \in Commands : previous_state[c] \in {None, "ON", "OFF"}
    /\ \A c \in Range(history) \cup Range(redo_stack) : Truthy(previous_state[c])
    /\ lastOp.op \in {"command_execute", "execute_command"}
        => Truthy(previous_state[lastOp.command])

C18_Witness ==
    /\ lastOp.op = "undo"
    /\ lastOp.popped
    /\ previous_state[Last(redo_stack)] = "OFF"
    /\ state = "OFF"
    /\ saved_states /= <<>>
    /\ devices /= {}

\* C19: when the Device is changed only through one CommandHistory and no
\* command object is passed to execute_command twice, the Device's state is the
\* target state of the command on top of history, or the initial state OFF
\* when history is empty.
C19_StateFollowsTopOfHistory ==
    state = IF history = <<>> THEN "OFF" ELSE Target(Last(history))

C19_Witness ==
    /\ lastOp.op = "undo"
    /\ lastOp.popped
    /\ history /= <<>>
    /\ state = "ON"
    /\ Target(Last(redo_stack)) = "OFF"

====
